---- MODULE Spec2Model ----
(***************************************************************************)
(* Model of tesseract_trainer/__init__.py: the MultiPageTif layout engine  *)
(* and the TesseractTrainer training pipeline.                             *)
(*                                                                         *)
(* Strings (texts, names, file names) are sequences of one-character       *)
(* strings, so that splitting, joining and prefix matching are computed.   *)
(***************************************************************************)
EXTENDS Integers, Sequences, FiniteSets, TLC

VARIABLES
    mode,        \* which object the caller has constructed: "none", "layout", "trainer", "aborted"
    \* ---- MultiPageTif object
    W, H, start_x, start_y,
    text,        \* self.text: list of words
    mp_prefix,   \* MultiPageTif.prefix
    boxlines,    \* self.boxlines
    \* ---- locals of _fill_pages / position in generate_tif
    page_nb, x_pos, y_pos,
    wi,          \* index of the next word of the for loop of _fill_pages
    mpc,         \* position of the MultiPageTif caller
    \* ---- working directory and external processes
    fs,          \* names of the files that exist in the working directory
    running,     \* external tools launched and not yet exited
    invoked,     \* history: the external tools launched, in order
    written,     \* history: the files written since the object was constructed
    \* ---- TesseractTrainer object
    cfg,         \* what the constructor found: font file, font_properties content, tessdata directory
    training_text, exp_number, dictionary_name, font_name, prefix, word_list,
    pc,          \* position of training(): "idle", a stage name, "done" or "raised"
    phase,       \* within a stage: "call" before the tool is launched, "wait" in display_output
    started,     \* history: the stages entered, in order
    cleanHist,   \* history: one record per call of clean()
    \* ---- temporary page files
    fs0,         \* the files of the working directory before anything was constructed
    saved,       \* history: the page numbers handed to _save_tif, in order
    mtime,       \* modification time of every existing file matched by glob('page*.tif')
    cmd,         \* _multipage_tif.cmd while convert runs: the page files handed to the merger
    \* ---- pil_coord_to_tesseract applied on its own
    mapper,      \* the arguments, the result and the result mapped again
    \* ---- two sessions in one working directory
    par          \* per session its fields and position, the shared files, the files each touched

layoutVars == <<W, H, start_x, start_y, text, mp_prefix, boxlines, page_nb, x_pos, y_pos, wi, mpc>>
fieldVars == <<training_text, exp_number, dictionary_name, font_name, prefix, word_list>>
trainerVars == <<cfg, fieldVars, pc, phase, started, cleanHist>>
pageVars == <<saved, mtime, cmd>>
mainVars == <<mode, layoutVars, fs, running, invoked, written, trainerVars, fs0, pageVars>>
vars == <<mainVars, mapper, par>>

(***************************************************************************)
(* Bounds                                                                  *)
(***************************************************************************)
MaxLen == 4    \* longest text handed directly to MultiPageTif
MaxCleans == 2 \* calls of clean() on one session

SP == " "
TAB == "\t"
NL == "\n"
Alphabet == {"A", SP, TAB, NL}
Widths == {60, 100, 200}
Heights == {40, 70, 110}
StartXs == {0, 20}
StartYs == {-8, 20}

Texts == UNION {[1..n -> Alphabet] : n \in 0..MaxLen}

\* a single line of two words on a large page
ExampleText == <<"A", "B", SP, "C", "D">>
LayoutInputs ==
    (Texts \X Widths \X Heights \X StartXs \X StartYs) \cup {<<ExampleText, 1000, 1000, 20, 20>>}

(***************************************************************************)
(* String helpers                                                          *)
(***************************************************************************)
Digits == <<"0", "1", "2", "3", "4", "5", "6", "7", "8", "9">>

RECURSIVE str(_)
str(n) == IF n < 10 THEN <<Digits[n + 1]>>
          ELSE str(n \div 10) \o <<Digits[(n % 10) + 1]>>

\* s.split(' '): split on every single space, empty words are kept
RECURSIVE split_sp(_)
split_sp(s) ==
    IF s = <<>> THEN << <<>> >>
    ELSE LET rest == split_sp(Tail(s))
         IN IF Head(s) = SP THEN << <<>> >> \o rest
            ELSE << <<Head(s)>> \o Head(rest) >> \o Tail(rest)

\* ".".join(parts)
RECURSIVE join_dot(_)
join_dot(parts) ==
    IF Len(parts) = 0 THEN <<>>
    ELSE IF Len(parts) = 1 THEN parts[1]
    ELSE parts[1] \o <<".">> \o join_dot(Tail(parts))

endswith(s, p) == Len(s) >= Len(p) /\ SubSeq(s, Len(s) - Len(p) + 1, Len(s)) = p

startswith(s, p) == Len(s) >= Len(p) /\ SubSeq(s, 1, Len(p)) = p

\* s.split(): split on runs of whitespace, no empty token
RECURSIVE split_ws(_)
split_ws(s) ==
    IF s = <<>> THEN <<>>
    ELSE IF Head(s) \in {SP, TAB, NL} THEN split_ws(Tail(s))
    ELSE LET rest == split_ws(Tail(s))
         IN IF Len(s) > 1 /\ s[2] \notin {SP, TAB, NL}
            THEN << <<Head(s)>> \o Head(rest) >> \o Tail(rest)
            ELSE << <<Head(s)>> >> \o rest

\* s.replace("\n", " ")
replace_nl(s) == [i \in 1..Len(s) |-> IF s[i] = NL THEN SP ELSE s[i]]

Range(q) == {q[i] : i \in 1..Len(q)}

(***************************************************************************)
(* External processes                                                      *)
(***************************************************************************)
\* subprocess.call(cmd) returns when the process has exited
call_returns(tool) == tool \notin running

\* mutant: display_output does not wait for the process
communicate_returns_at_once(tool) == TRUE

\* run.communicate() in display_output returns when the process has exited
communicate_returns(tool) == tool \notin running

(***************************************************************************)
(* Utility functions of the module                                         *)
(***************************************************************************)
\* mutant: the cursor position is left out of the test
word_fits_in_line_ignores_x(pagewidth, x, wordsize_w) == (pagewidth - wordsize_w) > 0

word_fits_in_line(pagewidth, x, wordsize_w) == (pagewidth - x - wordsize_w) > 0

\* mutant: room for one line height only
newline_fits_in_page_one_line(pageheight, y, wordsize_h) == (pageheight - y - wordsize_h) > 0

\* mutant: the comparison is reversed
newline_fits_in_page_reversed(pageheight, y, wordsize_h) == (pageheight - y - (2 * wordsize_h)) < 0

newline_fits_in_page(pageheight, y, wordsize_h) == (pageheight - y - (2 * wordsize_h)) > 0

\* mutant: the origin is moved without flipping the axis
pil_coord_to_tesseract_shifted(pil_x, pil_y, tif_h) == <<pil_x, pil_y - tif_h>>

pil_coord_to_tesseract(pil_x, pil_y, tif_h) == <<pil_x, tif_h - pil_y>>

(***************************************************************************)
(* MultiPageTif                                                            *)
(***************************************************************************)
GlyphSize == 28
indiv_page_prefix == <<"p", "a", "g", "e">>
DotTif == <<".", "t", "i", "f">>
DotBox == <<".", "b", "o", "x">>

mp_prefix_of(d, f, n) ==
    join_dot(<<d, f, <<"e", "x", "p">> \o str(n)>>)

page_file(n) == indiv_page_prefix \o str(n) \o DotTif

\* glob.glob('page*.tif')
glob_page_tifs(files) ==
    {f \in files : Len(f) >= Len(indiv_page_prefix) + Len(DotTif)
                    /\ startswith(f, indiv_page_prefix) /\ endswith(f, DotTif)}

\* mutant: only the first page is matched
glob_page_star_first_only(files) == {f \in files : f = page_file(0)}

\* glob.glob('page*')
glob_page_star(files) == {f \in files : startswith(f, indiv_page_prefix)}

Max(S) == CHOOSE m \in S : \A k \in S : k <= m

\* the modification times a page saved now can get.  The clock of the file
\* system is either coarse for the whole run (every page gets time 0, the time
\* of the files found in the directory) or fine (every page gets a time later
\* than all others); the first save of the run decides.
save_times(mt, done) ==
    LET m == IF DOMAIN mt = {} THEN 0 ELSE Max({mt[f] : f \in DOMAIN mt})
    IN IF done = <<>> THEN {0, m + 1}
       ELSE IF mt[page_file(done[1])] = 0 THEN {0}
       ELSE {m + 1}

\* the modification times after tif.save(f) at time t
save_tif_mtime(mt, f, t) == [g \in DOMAIN mt \cup {f} |-> IF g = f THEN t ELSE mt[g]]

\* sorted(files, key=os.path.getmtime): the sort is stable and glob returns
\* the files in any order, so files of equal time come in any order
RECURSIVE sorted_by_mtime(_, _)
sorted_by_mtime(files, mt) ==
    IF files = {} THEN {<<>>}
    ELSE UNION {{<<f>> \o q : q \in sorted_by_mtime(files \ {f}, mt)} :
                f \in {g \in files : \A h \in files : mt[g] <= mt[h]}}

\* mutant: the two mapped y coordinates are written in the other order
write_boxline_y_swapped(char, char_x0, char_y0, char_x1, char_y1, p) ==
    LET t0 == pil_coord_to_tesseract(char_x0, char_y0, H)
        t1 == pil_coord_to_tesseract(char_x1, char_y1, H)
    IN <<char, t0[1], t0[2], t1[1], t1[2], p>>

\* the boxline appended by _write_boxline: char x0 y x1 y1 page
write_boxline(char, char_x0, char_y0, char_x1, char_y1, p) ==
    LET t0 == pil_coord_to_tesseract(char_x0, char_y0, H)
        t1 == pil_coord_to_tesseract(char_x1, char_y1, H)
    IN <<char, t0[1], t1[2], t1[1], t0[2], p>>

\* mutant: the characters of a word are placed from right to left
word_boxlines_right_to_left(word, x, y, p) ==
    LET idx == SelectSeq([k \in 1..Len(word) |-> k], LAMBDA k : word[k] # SP)
    IN [j \in 1..Len(idx) |->
          write_boxline(word[idx[j]], x + (Len(word) - idx[j]) * GlyphSize, y,
                        x + (Len(word) - idx[j] + 1) * GlyphSize, y + GlyphSize, p)]

\* the inner loop of _fill_pages: the boxlines of one word written at (x, y)
word_boxlines(word, x, y, p) ==
    LET idx == SelectSeq([k \in 1..Len(word) |-> k], LAMBDA k : word[k] # SP)
    IN [j \in 1..Len(idx) |->
          write_boxline(word[idx[j]], x + (idx[j] - 1) * GlyphSize, y,
                        x + idx[j] * GlyphSize, y + GlyphSize, p)]

MultiPageTif_init(t, w, h, sx, sy, f, n, d) ==
    /\ W' = w
    /\ H' = h
    /\ start_x' = sx
    /\ start_y' = sy
    /\ text' = split_sp(t)
    /\ mp_prefix' = mp_prefix_of(d, f, n)
    /\ boxlines' = <<>>
    /\ mpc' = "constructed"
    /\ UNCHANGED <<page_nb, x_pos, y_pos, wi>>

\* a caller constructs a MultiPageTif directly
NewMultiPageTif ==
    /\ mode = "none"
    /\ mode' = "layout"
    /\ \E i \in LayoutInputs :
          MultiPageTif_init(i[1], i[2], i[3], i[4], i[5], <<"f">>, 0, <<"d">>)
    /\ UNCHANGED <<fs, running, invoked, written, trainerVars>>
    /\ UNCHANGED <<fs0, saved, mtime, cmd, mapper, par>>

\* generate_tif is called; _fill_pages up to the for loop
FillStart ==
    /\ mpc = "constructed"
    /\ page_nb' = 0
    /\ x_pos' = start_x
    /\ y_pos' = start_y
    /\ wi' = 1
    /\ mpc' = "fill"
    /\ UNCHANGED <<mode, W, H, start_x, start_y, text, mp_prefix, boxlines, fs, running,
                   invoked, written, trainerVars>>
    /\ UNCHANGED <<fs0, saved, mtime, cmd, mapper, par>>

\* one iteration of the for loop of _fill_pages
FillWord ==
    /\ mpc = "fill"
    /\ wi <= Len(text)
    /\ LET word == text[wi] \o <<SP>>
           wordsize_w == Len(word) * GlyphSize
           wordsize_h == GlyphSize
           fits == word_fits_in_line(W, x_pos, wordsize_w)
           newline == newline_fits_in_page(H, y_pos, wordsize_h)
           x0 == IF fits THEN x_pos ELSE start_x
           y0 == IF fits THEN y_pos ELSE IF newline THEN y_pos + wordsize_h ELSE start_y
           newpage == ~fits /\ ~newline
           p == IF newpage THEN page_nb + 1 ELSE page_nb
       IN /\ fs' = IF newpage THEN fs \cup {page_file(page_nb)} ELSE fs
          /\ written' = IF newpage THEN written \cup {page_file(page_nb)} ELSE written
          /\ saved' = IF newpage THEN Append(saved, page_nb) ELSE saved
          /\ IF newpage
             THEN \E t \in save_times(mtime, saved) : mtime' = save_tif_mtime(mtime, page_file(page_nb), t)
             ELSE mtime' = mtime
          /\ page_nb' = p
          /\ y_pos' = y0
          /\ boxlines' = boxlines \o word_boxlines(word, x0, y0, p)
          /\ x_pos' = x0 + Len(word) * GlyphSize
    /\ wi' = wi + 1
    /\ UNCHANGED <<mode, W, H, start_x, start_y, text, mp_prefix, mpc, running,
                   invoked, trainerVars>>
    /\ UNCHANGED <<fs0, cmd, mapper, par>>

\* the loop is over: the last page is saved
FillEnd ==
    /\ mpc = "fill"
    /\ wi > Len(text)
    /\ fs' = fs \cup {page_file(page_nb)}
    /\ written' = written \cup {page_file(page_nb)}
    /\ saved' = Append(saved, page_nb)
    /\ \E t \in save_times(mtime, saved) : mtime' = save_tif_mtime(mtime, page_file(page_nb), t)
    /\ mpc' = "filled"
    /\ UNCHANGED <<mode, W, H, start_x, start_y, text, mp_prefix, boxlines,
                   page_nb, x_pos, y_pos, wi, running, invoked, trainerVars>>
    /\ UNCHANGED <<fs0, cmd, mapper, par>>

\* _multipage_tif: subprocess.call launches convert
MergeCall ==
    /\ mpc = "filled"
    /\ running' = running \cup {"convert"}
    /\ invoked' = Append(invoked, "convert")
    /\ cmd' \in sorted_by_mtime(glob_page_tifs(fs), mtime)
    /\ mpc' = "merge_wait"
    /\ UNCHANGED <<mode, W, H, start_x, start_y, text, mp_prefix, boxlines,
                   page_nb, x_pos, y_pos, wi, fs, written, trainerVars>>
    /\ UNCHANGED <<fs0, saved, mtime, mapper, par>>

\* subprocess.call returns once convert has exited
MergeReturn ==
    /\ mpc = "merge_wait"
    /\ call_returns("convert")
    /\ cmd' = <<>>
    /\ mpc' = "merged"
    /\ UNCHANGED <<mode, W, H, start_x, start_y, text, mp_prefix, boxlines,
                   page_nb, x_pos, y_pos, wi, fs, running, invoked, written, trainerVars>>
    /\ UNCHANGED <<fs0, saved, mtime, mapper, par>>

\* _clean: os.remove of every file matched by glob('page*')
MultiPageTif_clean ==
    /\ mpc = "merged"
    /\ fs' = fs \ glob_page_star(fs)
    /\ mtime' = [f \in DOMAIN mtime \ glob_page_star(fs) |-> mtime[f]]
    /\ mpc' = "tif_done"
    /\ UNCHANGED <<mode, W, H, start_x, start_y, text, mp_prefix, boxlines,
                   page_nb, x_pos, y_pos, wi, running, invoked, written, trainerVars>>
    /\ UNCHANGED <<fs0, saved, cmd, mapper, par>>

\* generate_boxfile: the boxlines are written to {prefix}.box
generate_boxfile ==
    /\ mpc = "tif_done"
    /\ fs' = fs \cup {mp_prefix \o DotBox}
    /\ written' = written \cup {mp_prefix \o DotBox}
    /\ mpc' = "done"
    /\ UNCHANGED <<mode, W, H, start_x, start_y, text, mp_prefix, boxlines,
                   page_nb, x_pos, y_pos, wi, running, invoked, trainerVars>>
    /\ UNCHANGED <<fs0, saved, mtime, cmd, mapper, par>>

(***************************************************************************)
(* TesseractTrainer                                                        *)
(***************************************************************************)
None == "None"
WORD_LIST == None
EXP_NUMBER == 0

unicharset == <<"u", "n", "i", "c", "h", "a", "r", "s", "e", "t">>
pffmtable == <<"p", "f", "f", "m", "t", "a", "b", "l", "e">>
Microfeat == <<"M", "i", "c", "r", "o", "f", "e", "a", "t">>
inttemp == <<"i", "n", "t", "t", "e", "m", "p">>
normproto == <<"n", "o", "r", "m", "p", "r", "o", "t", "o">>
mfunicharset == <<"m", "f", "u", "n", "i", "c", "h", "a", "r", "s", "e", "t">>
GENERATED_DURING_TRAINING == <<unicharset, pffmtable, Microfeat, inttemp, normproto>>

DotTr == <<".", "t", "r">>
DotTxt == <<".", "t", "x", "t">>
DotFreqDawg == <<".", "f", "r", "e", "q", "-", "d", "a", "w", "g">>
DotTraineddata == <<".", "t", "r", "a", "i", "n", "e", "d", "d", "a", "t", "a">>

\* '%s.%s.exp%s' % (dictionary_name, font_name, str(exp_number))
prefix_of(d, f, n) == d \o <<".">> \o f \o <<".", "e", "x", "p">> \o str(n)

\* '%s.%s' % (dictionary_name, generated_file)
dict_file(d, generated_file) == d \o <<".">> \o generated_file

\* the truth value python gives to self.word_list
truthy(v) == v # None /\ v # <<>>

\* inputs of the constructor
FontNames == {<<"f">>, <<"f", SP, "g">>, <<"f", TAB, "g">>}
FontProperties == {<<"f", SP, "0", NL>>, <<"g", SP, "0", NL>>, <<"g", TAB, "f", "g", NL>>}
TextFiles == {<<"A">>, <<"A", NL, "A", TAB>>}
WordLists == {None, <<"w">>}

NoCfg == [font_name |-> <<>>, font_exists |-> FALSE, font_properties |-> <<>>,
          tessdata_exists |-> FALSE]

\* mutant: the tessdata directory is not checked
init_check_no_tessdata(fname, font_exists, font_properties, tessdata_exists) ==
    IF \E k \in 1..Len(fname) : fname[k] = SP THEN "font name has spaces"
    ELSE IF ~font_exists THEN "font file does not exist"
    ELSE IF fname \notin Range(split_ws(font_properties)) THEN "font properties not defined"
    ELSE "ok"

\* the checks of __init__, in order: the SystemExit raised, or "ok"
init_check(fname, font_exists, font_properties, tessdata_exists) ==
    IF \E k \in 1..Len(fname) : fname[k] = SP THEN "font name has spaces"
    ELSE IF ~font_exists THEN "font file does not exist"
    ELSE IF fname \notin Range(split_ws(font_properties)) THEN "font properties not defined"
    ELSE IF ~tessdata_exists THEN "tessdata does not exist"
    ELSE "ok"

TesseractTrainer_init ==
    /\ mode = "none"
    /\ \E t \in TextFiles, f \in FontNames, fe \in BOOLEAN, fp \in FontProperties,
          td \in BOOLEAN, wl \in WordLists :
          /\ cfg' = [font_name |-> f, font_exists |-> fe, font_properties |-> fp,
                     tessdata_exists |-> td]
          /\ IF init_check(f, fe, fp, td) = "ok"
             THEN /\ mode' = "trainer"
                  /\ training_text' = replace_nl(t)
                  /\ exp_number' = EXP_NUMBER
                  /\ dictionary_name' = <<"d">>
                  /\ font_name' = f
                  /\ prefix' = prefix_of(<<"d">>, f, EXP_NUMBER)
                  /\ word_list' = wl
             ELSE /\ mode' = "aborted"
                  /\ UNCHANGED fieldVars
    /\ UNCHANGED <<layoutVars, fs, running, invoked, written, pc, phase, started, cleanHist>>
    /\ UNCHANGED <<fs0, saved, mtime, cmd, mapper, par>>

\* the caller assigns a field of the session after construction, before training()
SetField ==
    /\ mode = "trainer"
    /\ pc = "idle"
    /\ \/ /\ dictionary_name' = <<"e">> /\ dictionary_name # <<"e">>
          /\ UNCHANGED <<font_name, exp_number>>
       \/ /\ font_name' = <<"g">> /\ font_name # <<"g">>
          /\ UNCHANGED <<dictionary_name, exp_number>>
       \/ /\ exp_number' = 1 /\ exp_number # 1
          /\ UNCHANGED <<dictionary_name, font_name>>
    /\ UNCHANGED <<mode, layoutVars, fs, running, invoked, written, cfg, training_text,
                   prefix, word_list, pc, phase, started, cleanHist>>
    /\ UNCHANGED <<fs0, saved, mtime, cmd, mapper, par>>

\* ---- stages of training()
Stages == <<"Layout", "BoxTrain", "CharsetExtract", "Cluster", "Normalize", "Rename",
            "DictionaryData", "Combine">>

ToolStages == {"BoxTrain", "CharsetExtract", "Cluster", "Normalize", "Combine"}

ToolOf(stage) ==
    CASE stage = "BoxTrain" -> "tesseract"
      [] stage = "CharsetExtract" -> "unicharset_extractor"
      [] stage = "Cluster" -> "mftraining"
      [] stage = "Normalize" -> "cntraining"
      [] stage = "DictionaryData" -> "wordlist2dawg"
      [] stage = "Combine" -> "combine_tessdata"

NextStage(stage) ==
    CASE stage = "Layout" -> "BoxTrain"
      [] stage = "BoxTrain" -> "CharsetExtract"
      [] stage = "CharsetExtract" -> "Cluster"
      [] stage = "Cluster" -> "Normalize"
      [] stage = "Normalize" -> "Rename"
      [] stage = "Rename" -> "DictionaryData"
      [] stage = "DictionaryData" -> "Combine"
      [] stage = "Combine" -> "done"

\* the files an external tool may leave behind when it exits
ToolOutputs(tool) ==
    CASE tool = "convert" -> {mp_prefix \o DotTif}
      [] tool = "tesseract" -> {prefix \o DotTr, prefix \o DotTxt}
      [] tool = "unicharset_extractor" -> {unicharset}
      [] tool = "mftraining" -> {inttemp, pffmtable, Microfeat, mfunicharset}
      [] tool = "cntraining" -> {normproto}
      [] tool = "wordlist2dawg" -> {dict_file(dictionary_name, Tail(DotFreqDawg))}
      [] tool = "combine_tessdata" -> {dict_file(dictionary_name, Tail(DotTraineddata))}

\* an external tool exits, having written all, some or none of its output files
ToolExit ==
    /\ \E tool \in running :
          /\ running' = running \ {tool}
          /\ \E outs \in SUBSET ToolOutputs(tool) :
                /\ fs' = fs \cup outs
                /\ written' = written \cup outs
    /\ UNCHANGED <<mode, layoutVars, invoked, trainerVars>>
    /\ UNCHANGED <<fs0, saved, mtime, cmd, mapper, par>>

\* training() is called
training ==
    /\ mode = "trainer"
    /\ pc = "idle"
    /\ pc' = "Layout"
    /\ phase' = "call"
    /\ started' = Append(started, "Layout")
    /\ UNCHANGED <<mode, layoutVars, fs, running, invoked, written, cfg, fieldVars, cleanHist>>
    /\ UNCHANGED <<fs0, saved, mtime, cmd, mapper, par>>

\* _generate_boxfile constructs the MultiPageTif
GenerateBoxfileNew ==
    /\ pc = "Layout"
    /\ mpc = "none"
    /\ MultiPageTif_init(training_text, 3500, 1024, 20, 20, font_name, exp_number, dictionary_name)
    /\ UNCHANGED <<mode, fs, running, invoked, written, trainerVars>>
    /\ UNCHANGED <<fs0, saved, mtime, cmd, mapper, par>>

\* _generate_boxfile returns, _train_on_boxfile is entered
GenerateBoxfileReturn ==
    /\ pc = "Layout"
    /\ mpc = "done"
    /\ pc' = NextStage(pc)
    /\ started' = Append(started, NextStage(pc))
    /\ UNCHANGED <<mode, layoutVars, fs, running, invoked, written, cfg, fieldVars, phase, cleanHist>>
    /\ UNCHANGED <<fs0, saved, mtime, cmd, mapper, par>>

\* subprocess.Popen(cmd) of a stage
StagePopen ==
    /\ pc \in ToolStages \/ (pc = "DictionaryData" /\ truthy(word_list))
    /\ phase = "call"
    /\ running' = running \cup {ToolOf(pc)}
    /\ invoked' = Append(invoked, ToolOf(pc))
    /\ phase' = "wait"
    /\ UNCHANGED <<mode, layoutVars, fs, written, cfg, fieldVars, pc, started, cleanHist>>
    /\ UNCHANGED <<fs0, saved, mtime, cmd, mapper, par>>

\* display_output returns and the stage's method with it; the next stage is entered
StageReturn ==
    /\ pc \in ToolStages \cup {"DictionaryData"}
    /\ phase = "wait"
    /\ communicate_returns(ToolOf(pc))
    /\ pc' = NextStage(pc)
    /\ phase' = "call"
    /\ started' = IF pc = "Combine" THEN started ELSE Append(started, NextStage(pc))
    /\ UNCHANGED <<mode, layoutVars, fs, running, invoked, written, cfg, fieldVars, cleanHist>>
    /\ UNCHANGED <<fs0, saved, mtime, cmd, mapper, par>>

\* mutant: a missing file is skipped instead of raising
RECURSIVE rename_files_skip_missing(_, _, _)
rename_files_skip_missing(todo, d, files) ==
    IF todo = <<>> THEN [fs |-> files, raised |-> FALSE]
    ELSE IF Head(todo) \notin files THEN rename_files_skip_missing(Tail(todo), d, files)
    ELSE rename_files_skip_missing(Tail(todo), d,
                      (files \ {Head(todo)}) \cup {dict_file(d, Head(todo))})

\* mutant: the file is copied under its new name, the fixed-name file stays
RECURSIVE rename_files_keeps_source(_, _, _)
rename_files_keeps_source(todo, d, files) ==
    IF todo = <<>> THEN [fs |-> files, raised |-> FALSE]
    ELSE IF Head(todo) \notin files THEN [fs |-> files, raised |-> TRUE]
    ELSE rename_files_keeps_source(Tail(todo), d, files \cup {dict_file(d, Head(todo))})

\* the loop of _rename_files over the files of todo: the files after it and
\* whether os.rename raised
RECURSIVE rename_files(_, _, _)
rename_files(todo, d, files) ==
    IF todo = <<>> THEN [fs |-> files, raised |-> FALSE]
    ELSE IF Head(todo) \notin files THEN [fs |-> files, raised |-> TRUE]
    ELSE rename_files(Tail(todo), d,
                      (files \ {Head(todo)}) \cup {dict_file(d, Head(todo))})

RenameFiles ==
    /\ pc = "Rename"
    /\ LET r == rename_files(GENERATED_DURING_TRAINING, dictionary_name, fs)
       IN /\ fs' = r.fs
          /\ written' = written \cup (r.fs \ fs)
          /\ pc' = IF r.raised THEN "raised" ELSE NextStage(pc)
          /\ started' = IF r.raised THEN started ELSE Append(started, NextStage(pc))
    /\ UNCHANGED <<mode, layoutVars, running, invoked, cfg, fieldVars, phase, cleanHist>>
    /\ UNCHANGED <<fs0, saved, mtime, cmd, mapper, par>>

\* _dictionary_data without a word list does nothing
DictionaryDataSkip ==
    /\ pc = "DictionaryData"
    /\ phase = "call"
    /\ ~truthy(word_list)
    /\ pc' = NextStage(pc)
    /\ started' = Append(started, NextStage(pc))
    /\ UNCHANGED <<mode, layoutVars, fs, running, invoked, written, cfg, fieldVars, phase, cleanHist>>
    /\ UNCHANGED <<fs0, saved, mtime, cmd, mapper, par>>

\* mutant: the freq-dawg is removed whether or not a word list is configured
clean_targets_always_dawg ==
    <<prefix \o DotTr, prefix \o DotTxt, prefix \o DotBox,
      dict_file(dictionary_name, inttemp), dict_file(dictionary_name, Microfeat),
      dict_file(dictionary_name, normproto), dict_file(dictionary_name, pffmtable),
      dict_file(dictionary_name, unicharset),
      dict_file(dictionary_name, Tail(DotFreqDawg)), mfunicharset>>

\* mutant: the box file is not removed
clean_targets_without_box ==
    <<prefix \o DotTr, prefix \o DotTxt,
      dict_file(dictionary_name, inttemp), dict_file(dictionary_name, Microfeat),
      dict_file(dictionary_name, normproto), dict_file(dictionary_name, pffmtable),
      dict_file(dictionary_name, unicharset)>>
    \o (IF truthy(word_list) THEN <<dict_file(dictionary_name, Tail(DotFreqDawg))>> ELSE <<>>)
    \o <<mfunicharset>>

\* the files clean() removes, in order
clean_targets ==
    <<prefix \o DotTr, prefix \o DotTxt, prefix \o DotBox,
      dict_file(dictionary_name, inttemp), dict_file(dictionary_name, Microfeat),
      dict_file(dictionary_name, normproto), dict_file(dictionary_name, pffmtable),
      dict_file(dictionary_name, unicharset)>>
    \o (IF truthy(word_list) THEN <<dict_file(dictionary_name, Tail(DotFreqDawg))>> ELSE <<>>)
    \o <<mfunicharset>>

\* os.remove of the files of todo in order, up to the first one that raises
RECURSIVE remove_all(_, _, _)
remove_all(todo, files, tried) ==
    IF todo = <<>> THEN [fs |-> files, tried |-> tried, raised |-> FALSE]
    ELSE IF Head(todo) \notin files
         THEN [fs |-> files, tried |-> tried \cup {Head(todo)}, raised |-> TRUE]
    ELSE remove_all(Tail(todo), files \ {Head(todo)}, tried \cup {Head(todo)})

clean ==
    /\ mode = "trainer"
    /\ pc \in {"idle", "done", "raised"}
    /\ Len(cleanHist) < MaxCleans
    /\ LET r == remove_all(clean_targets, fs, {})
       IN /\ fs' = r.fs
          /\ cleanHist' = Append(cleanHist,
                [raised |-> r.raised, tried |-> r.tried, before |-> fs, after |-> r.fs,
                 targets |-> Range(clean_targets), at |-> pc])
    /\ UNCHANGED <<mode, layoutVars, running, invoked, written, cfg, fieldVars, pc, phase, started>>
    /\ UNCHANGED <<fs0, saved, mtime, cmd, mapper, par>>

\* files that may lie in the working directory beforehand
StaleFiles == {<<"p", "a", "g", "e", "9", ".", "t", "i", "f">>,
               <<"p", "a", "g", "e", "l", "i", "s", "t">>,
               <<"n", "o", "t", "e", "s">>}

MainInit(dir) ==
    /\ mode = "none"
    /\ W = 0 /\ H = 0 /\ start_x = 0 /\ start_y = 0
    /\ text = <<>>
    /\ mp_prefix = <<>>
    /\ boxlines = <<>>
    /\ page_nb = 0 /\ x_pos = 0 /\ y_pos = 0 /\ wi = 0
    /\ mpc = "none"
    /\ fs0 = dir
    /\ fs = fs0
    /\ mtime = [f \in glob_page_tifs(fs0) |-> 0]
    /\ saved = <<>>
    /\ cmd = <<>>
    /\ running = {}
    /\ invoked = <<>>
    /\ written = {}
    /\ cfg = NoCfg
    /\ training_text = <<>>
    /\ exp_number = 0
    /\ dictionary_name = <<>>
    /\ font_name = <<>>
    /\ prefix = <<>>
    /\ word_list = None
    /\ pc = "idle"
    /\ phase = "call"
    /\ started = <<>>
    /\ cleanHist = <<>>

NoMap == [x |-> 0, y |-> 0, h |-> 0, out |-> <<0, 0>>, back |-> <<0, 0>>, step |-> "none"]
NoPar == [sess |-> <<>>, pc |-> <<>>, fs |-> {}, touched |-> <<>>]

Init ==
    /\ \E dir \in {{}, StaleFiles} : MainInit(dir)
    /\ mapper = NoMap
    /\ par = NoPar

Next ==
    \/ NewMultiPageTif
    \/ FillStart
    \/ FillWord
    \/ FillEnd
    \/ MergeCall
    \/ MergeReturn
    \/ MultiPageTif_clean
    \/ generate_boxfile
    \/ ToolExit
    \/ TesseractTrainer_init
    \/ SetField
    \/ training
    \/ GenerateBoxfileNew
    \/ GenerateBoxfileReturn
    \/ StagePopen
    \/ StageReturn
    \/ RenameFiles
    \/ DictionaryDataSkip
    \/ clean

Spec == Init /\ [][Next]_vars

(***************************************************************************)
(* pil_coord_to_tesseract on its own: a caller maps a point and maps the   *)
(* result again with the same page height                                  *)
(***************************************************************************)
MaxCoord == 5
Coords == (0 - MaxCoord)..MaxCoord
PageHeights == (0 - 1)..MaxCoord

InitMap ==
    /\ MainInit({})
    /\ par = NoPar
    /\ \E x \in Coords, y \in Coords, h \in PageHeights :
          mapper = [x |-> x, y |-> y, h |-> h, out |-> <<0, 0>>, back |-> <<0, 0>>,
                    step |-> "args"]

MapOnce ==
    /\ mapper.step = "args"
    /\ mapper' = [mapper EXCEPT !.out = pil_coord_to_tesseract(mapper.x, mapper.y, mapper.h),
                                !.step = "once"]
    /\ UNCHANGED <<mainVars, par>>

MapTwice ==
    /\ mapper.step = "once"
    /\ mapper' = [mapper EXCEPT !.back = pil_coord_to_tesseract(mapper.out[1], mapper.out[2], mapper.h),
                                !.step = "twice"]
    /\ UNCHANGED <<mainVars, par>>

NextMap ==
    \/ MapOnce
    \/ MapTwice

SpecMap == InitMap /\ [][NextMap]_vars

(***************************************************************************)
(* Two sessions in one working directory: two TesseractTrainer objects     *)
(* with different prefixes run training() and clean() side by side, each   *)
(* in its own process.  The text of each fits on one page.  An external    *)
(* tool succeeds when the files its command line names exist.              *)
(***************************************************************************)
Sessions == {1, 2}
ParDictionaryNames == {<<"d">>, <<"e">>}
ParFontNames == {<<"f">>, <<"g">>}

SessionConfigs ==
    [dictionary_name : ParDictionaryNames, font_name : ParFontNames, word_list : WordLists]

ses_prefix(se) == prefix_of(se.dictionary_name, se.font_name, EXP_NUMBER)

\* the files named by the command line of a stage's tool
ses_tool_inputs(tool, se) ==
    CASE tool = "tesseract" -> {ses_prefix(se) \o DotTif, ses_prefix(se) \o DotBox}
      [] tool = "unicharset_extractor" -> {ses_prefix(se) \o DotBox}
      [] tool = "mftraining" -> {unicharset, ses_prefix(se) \o DotTr}
      [] tool = "cntraining" -> {ses_prefix(se) \o DotTr}
      [] tool = "wordlist2dawg" -> {dict_file(se.dictionary_name, unicharset)}
      [] tool = "combine_tessdata" ->
            {dict_file(se.dictionary_name, g) : g \in Range(GENERATED_DURING_TRAINING)}

\* the files a stage's tool leaves behind when it succeeds
ses_tool_outputs(tool, se) ==
    CASE tool = "tesseract" -> {ses_prefix(se) \o DotTr, ses_prefix(se) \o DotTxt}
      [] tool = "unicharset_extractor" -> {unicharset}
      [] tool = "mftraining" -> {inttemp, pffmtable, Microfeat, mfunicharset}
      [] tool = "cntraining" -> {normproto}
      [] tool = "wordlist2dawg" -> {dict_file(se.dictionary_name, Tail(DotFreqDawg))}
      [] tool = "combine_tessdata" -> {dict_file(se.dictionary_name, Tail(DotTraineddata))}

\* the files clean() of a session removes, in order
ses_clean_targets(se) ==
    <<ses_prefix(se) \o DotTr, ses_prefix(se) \o DotTxt, ses_prefix(se) \o DotBox,
      dict_file(se.dictionary_name, inttemp), dict_file(se.dictionary_name, Microfeat),
      dict_file(se.dictionary_name, normproto), dict_file(se.dictionary_name, pffmtable),
      dict_file(se.dictionary_name, unicharset)>>
    \o (IF truthy(se.word_list) THEN <<dict_file(se.dictionary_name, Tail(DotFreqDawg))>>
        ELSE <<>>)
    \o <<mfunicharset>>

\* session s moves to position q, the directory becomes files, and s has
\* read, written, renamed or deleted the files of used
ParStep(s, q, files, used) ==
    /\ par' = [par EXCEPT !.pc[s] = q, !.fs = files, !.touched[s] = @ \cup used]
    /\ UNCHANGED <<mainVars, mapper>>

InitPar ==
    /\ MainInit({})
    /\ mapper = NoMap
    /\ \E a \in SessionConfigs, b \in SessionConfigs :
          /\ ses_prefix(a) # ses_prefix(b)
          /\ par = [sess |-> <<a, b>>, pc |-> <<"Layout", "Layout">>, fs |-> {},
                    touched |-> <<{}, {}>>]

\* _fill_pages of a one-page text: _save_tif writes page0.tif
ParSaveTif ==
    \E s \in Sessions :
        /\ par.pc[s] = "Layout"
        /\ ParStep(s, "Merge", par.fs \cup {page_file(0)}, {page_file(0)})

\* _multipage_tif: convert merges every file of glob('page*.tif') into {prefix}.tif
ParMultipageTif ==
    \E s \in Sessions :
        /\ par.pc[s] = "Merge"
        /\ LET pages == glob_page_tifs(par.fs)
               out == IF pages = {} THEN {} ELSE {ses_prefix(par.sess[s]) \o DotTif}
           IN ParStep(s, "LayoutClean", par.fs \cup out, pages \cup out)

\* MultiPageTif._clean: every file of glob('page*') is removed
ParLayoutClean ==
    \E s \in Sessions :
        /\ par.pc[s] = "LayoutClean"
        /\ ParStep(s, "Boxfile", par.fs \ glob_page_star(par.fs), glob_page_star(par.fs))

\* MultiPageTif.generate_boxfile writes {prefix}.box
ParBoxfile ==
    \E s \in Sessions :
        /\ par.pc[s] = "Boxfile"
        /\ ParStep(s, "BoxTrain", par.fs \cup {ses_prefix(par.sess[s]) \o DotBox},
                   {ses_prefix(par.sess[s]) \o DotBox})

\* a stage that runs an external tool and waits for it
ParTool ==
    \E s \in Sessions :
        /\ \/ par.pc[s] \in ToolStages
           \/ par.pc[s] = "DictionaryData" /\ truthy(par.sess[s].word_list)
        /\ LET ins == ses_tool_inputs(ToolOf(par.pc[s]), par.sess[s])
               outs == IF ins \subseteq par.fs
                       THEN ses_tool_outputs(ToolOf(par.pc[s]), par.sess[s]) ELSE {}
           IN ParStep(s, NextStage(par.pc[s]), par.fs \cup outs, (ins \cap par.fs) \cup outs)

\* _rename_files
ParRenameFiles ==
    \E s \in Sessions :
        /\ par.pc[s] = "Rename"
        /\ LET r == rename_files(GENERATED_DURING_TRAINING, par.sess[s].dictionary_name, par.fs)
           IN ParStep(s, IF r.raised THEN "raised" ELSE NextStage(par.pc[s]), r.fs,
                      (par.fs \ r.fs) \cup (r.fs \ par.fs))

\* _dictionary_data without a word list
ParDictionaryDataSkip ==
    \E s \in Sessions :
        /\ par.pc[s] = "DictionaryData"
        /\ ~truthy(par.sess[s].word_list)
        /\ ParStep(s, NextStage(par.pc[s]), par.fs, {})

\* clean() after training() returned
ParClean ==
    \E s \in Sessions :
        /\ par.pc[s] = "done"
        /\ LET r == remove_all(ses_clean_targets(par.sess[s]), par.fs, {})
           IN ParStep(s, IF r.raised THEN "clean_raised" ELSE "cleaned", r.fs, par.fs \ r.fs)

NextPar ==
    \/ ParSaveTif
    \/ ParMultipageTif
    \/ ParLayoutClean
    \/ ParBoxfile
    \/ ParTool
    \/ ParRenameFiles
    \/ ParDictionaryDataSkip
    \/ ParClean

SpecPar == InitPar /\ [][NextPar]_vars

(***************************************************************************)
(* Properties of the layout engine                                         *)
(***************************************************************************)
IsWhitespace(c) == c \in {SP, TAB, NL}

RECURSIVE nonws_count(_)
nonws_count(words) ==
    IF words = <<>> THEN 0
    ELSE Len(SelectSeq(Head(words), LAMBDA c : ~IsWhitespace(c))) + nonws_count(Tail(words))

FillDone == mpc \notin {"none", "constructed", "fill"}

BoxPage(b) == b[6]

\* C1: once _fill_pages has completed, the number of boxlines equals the
\* number of non-whitespace characters (space, tab, newline excluded) of the text.
C1_BoxCountIsNonWhitespaceCount ==
    FillDone => Len(boxlines) = nonws_count(text)

PagesNonDecreasing ==
    \A i \in 1..(Len(boxlines) - 1) : BoxPage(boxlines[i]) <= BoxPage(boxlines[i + 1])

\* C2 as stated: page indices are non-decreasing in emission order and the
\* first emitted annotation has page index 0.
C2_Original ==
    /\ PagesNonDecreasing
    /\ Len(boxlines) > 0 => BoxPage(boxlines[1]) = 0

FirstWordPlacedOnFirstPage ==
    /\ text # <<>>
    /\ text[1] # <<>>
    /\ \/ W - start_x - (Len(text[1]) + 1) * 28 > 0
       \/ H - start_y - 56 > 0

\* C2 amended: page indices are non-decreasing in emission order, and the first
\* emitted annotation has page index 0 when the first word of the text is not
\* empty and either fits in the first line or a new line fits in the page.
C2_PageIndices ==
    /\ PagesNonDecreasing
    /\ (Len(boxlines) > 0 /\ FirstWordPlacedOnFirstPage) => BoxPage(boxlines[1]) = 0

C2_Witness ==
    /\ FillDone
    /\ Len(boxlines) >= 2
    /\ FirstWordPlacedOnFirstPage
    /\ BoxPage(boxlines[1]) = 0
    /\ BoxPage(boxlines[Len(boxlines)]) >= 1

WritesWord == mpc = "fill" /\ wi >= 1 /\ wi <= Len(text) /\ wi' = wi + 1

BoxesInsidePageVertically ==
    \A i \in 1..Len(boxlines) :
        /\ 0 <= boxlines[i][3] /\ boxlines[i][3] <= H
        /\ 0 <= boxlines[i][5] /\ boxlines[i][5] <= H

IsPrefixOf(p, q) == Len(p) <= Len(q) /\ SubSeq(q, 1, Len(p)) = p

\* C5: the stages are entered in the fixed order, at most one external
\* process is active at a time, and the only process that can be active is the
\* one of the stage that is waiting for it: no stage starts before the
\* process of its predecessor has exited.
C5_StagesSequential ==
    /\ Cardinality(running) <= 1
    /\ IsPrefixOf(started, Stages)
    /\ \A tool \in running :
          \/ /\ mpc = "merge_wait"
             /\ pc \in {"idle", "Layout"}
             /\ tool = "convert"
          \/ /\ phase = "wait"
             /\ pc \in ToolStages \cup {"DictionaryData"}
             /\ tool = ToolOf(pc)

C5_Witness ==
    /\ pc = "Combine"
    /\ phase = "wait"
    /\ running = {"combine_tessdata"}
    /\ started = Stages

\* C6 as stated: whatever the external tools did, training() does not halt
\* and attempts every stage up to and including Combine.
C6_Original ==
    pc \in {"done", "raised"} => started = Stages

\* C6 amended: whatever the external tools did, training() attempts every
\* stage up to Rename; Rename raises, and DictionaryData and Combine are not
\* attempted, exactly when a fixed-name file is missing when Rename reaches it;
\* otherwise all five files are renamed and training() goes on to Combine.
C6_StagesAttempted ==
    /\ pc = "done" => started = Stages
    /\ pc = "raised" =>
          /\ started = SubSeq(Stages, 1, 6)
          /\ \E g \in Range(GENERATED_DURING_TRAINING) : g \notin fs
    /\ pc \in {"DictionaryData", "Combine"} =>
          \A g \in Range(GENERATED_DURING_TRAINING) :
              dict_file(dictionary_name, g) \in fs /\ g \notin fs

C6_Witness ==
    /\ pc = "done"
    /\ started = Stages
    /\ cleanHist = <<>>
    /\ (prefix \o DotTr) \notin fs
    /\ (mp_prefix \o DotTif) \notin fs
    /\ \A f \in fs : ~endswith(f, DotTraineddata)

\* C7: the DictionaryData stage launches its tool if and only if a word list
\* is configured; without one, no file named *.freq-dawg is written and
\* clean() never tries to remove one.
C7_DictionaryDataOnlyWhenConfigured ==
    /\ "wordlist2dawg" \in Range(invoked) => truthy(word_list)
    /\ (truthy(word_list) /\ pc \in {"Combine", "done"}) => "wordlist2dawg" \in Range(invoked)
    /\ ~truthy(word_list) =>
          /\ \A f \in written : ~endswith(f, DotFreqDawg)
          /\ \A i \in 1..Len(cleanHist) :
                \A f \in cleanHist[i].tried : ~endswith(f, DotFreqDawg)

C7_Witness ==
    /\ mode = "trainer"
    /\ ~truthy(word_list)
    /\ pc = "done"
    /\ "wordlist2dawg" \notin Range(invoked)
    /\ Len(cleanHist) > 0
    /\ mfunicharset \in cleanHist[1].tried

\* C8: the prefix under which the Layout stage writes its .tif and .box is
\* the session prefix under which the later stages and clean() look for them.
C8_PrefixIsJoinKey ==
    (mode = "trainer" /\ mpc # "none") => mp_prefix = prefix

HasWhitespace(name) == \E k \in 1..Len(name) : IsWhitespace(name[k])

ConfigError(c) ==
    \/ HasWhitespace(c.font_name)
    \/ ~c.font_exists
    \/ c.font_name \notin Range(split_ws(c.font_properties))
    \/ ~c.tessdata_exists

\* C9: when the font name contains whitespace, the font file does not exist,
\* the font name is not in the font-properties registry or the tessdata
\* directory does not exist, the construction aborts and no stage is run: no
\* tool is launched and no file is created, renamed or deleted.
C9_ConfigErrorsAreFatal ==
    (mode \in {"trainer", "aborted"} /\ ConfigError(cfg)) =>
        /\ mode = "aborted"
        /\ pc = "idle"
        /\ started = <<>>
        /\ invoked = <<>>
        /\ running = {}
        /\ fs = fs0
        /\ written = {}
        /\ cleanHist = <<>>

C9_Witness ==
    /\ mode = "aborted"
    /\ cfg.font_name = <<"f", TAB, "g">>
    /\ cfg.font_exists
    /\ cfg.tessdata_exists
    /\ fs = fs0

\* C10: clean() never raises when a target file is missing, removes every
\* target that exists, and a second clean() leaves the files as the first did.
C10_CleanTolerantIdempotent ==
    \A i \in 1..Len(cleanHist) :
        /\ ~cleanHist[i].raised
        /\ cleanHist[i].after \cap cleanHist[i].targets = {}
        /\ (i > 1 /\ cleanHist[i].before = cleanHist[i - 1].after) =>
              cleanHist[i].after = cleanHist[i - 1].after

(***************************************************************************)
(* Box geometry, reading order and break policy                            *)
(***************************************************************************)
IsExample ==
    /\ text = <<<<"A", "B">>, <<"C", "D">>>>
    /\ W = 1000 /\ H = 1000 /\ start_x = 20 /\ start_y = 20

\* C12: every box is 28 wide and 28 high, its x0 is start_x plus a multiple
\* of 28 (the cursor advances by 28 per character, spaces included), its box
\* line carries the pair (H - (y + 28), H - y) for a line top y = start_y +
\* 28*j; the text "AB CD" on a 1000x1000 page from (20, 20) gives one page and
\* the four boxes A, B, C, D at x0 = 20, 48, 104, 132.
C12_BoxGeometry ==
    /\ \A i \in 1..Len(boxlines) :
          LET b == boxlines[i]
          IN /\ b[2] >= start_x
             /\ (b[2] - start_x) % 28 = 0
             /\ b[4] = b[2] + 28
             /\ b[3] = b[5] - 28
             /\ H - b[5] >= start_y
             /\ (H - b[5] - start_y) % 28 = 0
    /\ mpc = "fill" => (x_pos >= start_x /\ (x_pos - start_x) % 28 = 0)
    /\ (IsExample /\ FillDone) =>
          /\ page_nb = 0
          /\ boxlines = <<<<"A", 20, 952, 48, 980, 0>>, <<"B", 48, 952, 76, 980, 0>>,
                          <<"C", 104, 952, 132, 980, 0>>, <<"D", 132, 952, 160, 980, 0>>>>

C12_Witness ==
    /\ IsExample
    /\ FillDone
    /\ Len(boxlines) = 4
    /\ boxlines[3][2] = 104

\* position of a box in reading order: page, top-left y in layout space, x0
BoxKey(b) == <<b[6], H - b[5], b[2]>>

LexLess(a, b) ==
    \/ a[1] < b[1]
    \/ a[1] = b[1] /\ a[2] < b[2]
    \/ a[1] = b[1] /\ a[2] = b[2] /\ a[3] < b[3]

\* C14: for any two consecutively emitted boxes, (page, y, x0) of the second
\* is strictly greater than that of the first in lexicographic order.
C14_ReadingOrder ==
    \A i \in 1..(Len(boxlines) - 1) : LexLess(BoxKey(boxlines[i]), BoxKey(boxlines[i + 1]))

C14_Witness ==
    /\ \E i \in 1..(Len(boxlines) - 1) :
          /\ BoxKey(boxlines[i])[1] = BoxKey(boxlines[i + 1])[1]
          /\ BoxKey(boxlines[i])[2] = BoxKey(boxlines[i + 1])[2]
    /\ \E i \in 1..(Len(boxlines) - 1) :
          BoxKey(boxlines[i])[1] < BoxKey(boxlines[i + 1])[1]

\* C15: a word that fits changes neither y nor the page index; a word that
\* does not fit goes to (start_x, y + 28) on the same page if and only if
\* H - y - 56 > 0, and otherwise the page is saved, the cursor restarts at
\* (start_x, start_y) and the page index grows by exactly 1.
C15_BreakPolicy ==
    [][WritesWord =>
         LET w == (Len(text[wi]) + 1) * 28
         IN IF W - x_pos - w > 0
            THEN y_pos' = y_pos /\ page_nb' = page_nb /\ x_pos' = x_pos + w /\ fs' = fs
            ELSE IF H - y_pos - 56 > 0
            THEN y_pos' = y_pos + 28 /\ page_nb' = page_nb /\ x_pos' = start_x + w /\ fs' = fs
            ELSE /\ y_pos' = start_y /\ page_nb' = page_nb + 1 /\ x_pos' = start_x + w
                 /\ page_file(page_nb) \in fs']_vars

C15_Witness ==
    /\ mpc = "fill"
    /\ page_nb >= 1
    /\ y_pos = start_y
    /\ page_file(0) \in fs
    /\ Len(boxlines) >= 2

\* C20: when Combine is invoked, the five dictionary-scoped files exist and
\* none of the five fixed-name files remains; when Rename found a fixed-name
\* file missing, Combine is never invoked.
C20_CombinePrecondition ==
    /\ (pc = "Combine" /\ phase = "wait") =>
          \A g \in Range(GENERATED_DURING_TRAINING) :
              dict_file(dictionary_name, g) \in fs /\ g \notin fs
    /\ "combine_tessdata" \in Range(invoked) => pc \in {"Combine", "done"}
    /\ pc = "raised" =>
          /\ "combine_tessdata" \notin Range(invoked)
          /\ "Combine" \notin Range(started)

C20_Witness ==
    /\ pc = "Combine"
    /\ phase = "wait"
    /\ "combine_tessdata" \in running
    /\ \A g \in Range(GENERATED_DURING_TRAINING) : dict_file(dictionary_name, g) \in fs

(***************************************************************************)
(* Temporary page files                                                    *)
(***************************************************************************)
MergeInvoked == mpc \in {"merge_wait", "merged", "tif_done", "done"}

GenerateTifReturned == mpc \in {"tif_done", "done"}

\* C16: the pages 0..N are each saved exactly once, in order; page k is
\* saved before a character is placed on page k+1 and after its own
\* characters; all are saved before the merge is invoked; once generate_tif
\* has returned none of the saved page files remains.
C16_TempPageFiles ==
    /\ saved = [i \in 1..Len(saved) |-> i - 1]
    /\ mpc = "fill" => Len(saved) = page_nb
    /\ \A i \in 1..Len(boxlines) : \A k \in 0..(boxlines[i][6] - 1) : k \in Range(saved)
    /\ MergeInvoked => saved = [i \in 1..(page_nb + 1) |-> i - 1]
    /\ GenerateTifReturned => \A k \in Range(saved) : page_file(k) \notin fs

C16_Witness ==
    /\ mpc = "done"
    /\ Len(saved) >= 2
    /\ Len(boxlines) >= 2
    /\ boxlines[Len(boxlines)][6] = Len(saved) - 1

\* C18: the page files handed to the merger are exactly the pages saved by
\* this run, in page-index order.
C18_MergerGetsPagesInOrder ==
    mpc = "merge_wait" => cmd = [i \in 1..(page_nb + 1) |-> page_file(i - 1)]

\* C19: every file that was in the working directory before generate_tif and
\* was not written by it still exists when generate_tif has returned.
C19_CleanupOnlyOwnFiles ==
    GenerateTifReturned => \A f \in fs0 \ written : f \in fs

(***************************************************************************)
(* clean() after a complete run                                            *)
(***************************************************************************)
\* the intermediate artifacts that clean() is said to delete
Intermediates ==
    {prefix \o DotBox, prefix \o DotTr, mfunicharset}
    \cup {dict_file(dictionary_name, g) : g \in Range(GENERATED_DURING_TRAINING)}
    \cup (IF truthy(word_list) THEN {dict_file(dictionary_name, Tail(DotFreqDawg))} ELSE {})

Kept == {prefix \o DotTif, dict_file(dictionary_name, Tail(DotTraineddata))}

\* the artifacts the stages are said to produce, as they are after Rename
ListedArtifacts == Intermediates \cup Kept

C13_MapIsInvolution ==
    /\ mapper.step \in {"once", "twice"} => mapper.out[1] = mapper.x
    /\ mapper.step = "twice" =>
          /\ mapper.back = <<mapper.x, mapper.y>>
          /\ mapper.back[1] = mapper.out[1]

C13_Witness ==
    /\ mapper.step = "twice"
    /\ mapper.out[2] # mapper.y
    /\ mapper.y < 0
    /\ mapper.h > 0
    /\ mapper.back = <<mapper.x, mapper.y>>

(***************************************************************************)
(* C11: two sessions with different prefixes, interleaved in one working   *)
(* directory, touch disjoint sets of files, and each ends as it does when  *)
(* it runs alone: training() returns with {prefix}.tif and                 *)
(* {dictionary_name}.traineddata in place, and clean() does not raise.     *)
(***************************************************************************)
AloneOutcome(s) ==
    /\ par.pc[s] \notin {"raised", "clean_raised"}
    /\ par.pc[s] = "done" =>
          {ses_prefix(par.sess[s]) \o DotTif, ses_prefix(par.sess[s]) \o DotBox,
           ses_prefix(par.sess[s]) \o DotTr,
           dict_file(par.sess[s].dictionary_name, Tail(DotTraineddata))} \subseteq par.fs

C11_DisjointNamespaces ==
    par # NoPar =>
        /\ par.touched[1] \cap par.touched[2] = {}
        /\ \A s \in Sessions : AloneOutcome(s)

====
